---- MODULE Spec2Model ----
(***************************************************************************)
(* Model of src/commands/generate.rs of cargo-docset: the file name        *)
(* grammar (parse_docset_entry), the tree walk (recursive_walk), the index *)
(* construction (generate_sqlite_index) and the generate pipeline.         *)
(*                                                                         *)
(* Strings are sequences of atoms.  An atom is either one of the two       *)
(* characters the code looks at ("." and ":") or a maximal run of other    *)
(* characters ("fn", "index", "html", ...).  "fn.foo.html" is              *)
(* <<"fn", ".", "foo", ".", "html">>.  A path is a sequence of names.      *)
(*                                                                         *)
(* Three specifications share the variables:                               *)
(*   SpecWalk   recursive_walk on every tree of up to MaxFiles leaves;     *)
(*   SpecIndex  generate_sqlite_index on every sequence of up to           *)
(*              MaxEntries entries;                                        *)
(*   Spec       generate, run after run, each step succeeding or failing.  *)
(* Each leaves the variables of the other two at their idle values.        *)
(***************************************************************************)
EXTENDS Integers, Sequences, FiniteSets, TLC

VARIABLES
    tree,      \* target/doc: the set of leaf paths (files, empty directories) below the root
    rev,       \* the order in which read_dir lists a directory (an OS property)
    badDir,    \* the directory read_dir cannot read, NoDir when every one is readable
    wpc,       \* position of the walk: "start", "done"
    walkRes,   \* result of recursive_walk: [status, entries]
    ientries,  \* generate_sqlite_index on its own: the entries it is given
    idb0,      \* the file docSet.dsidx before the call
    idb,       \* the file docSet.dsidx it works on
    ifault,    \* the database call that fails for a reason outside the program
    ipc,       \* position: "start", "done"
    ires,      \* its result: "none", "ok", "err"
    package,   \* generate: cfg.package, "All", "Current", "Single" or "List"
    hasCurrent,\* whether the workspace has a current package
    cfg,       \* the options of the run in progress: [exclude, clean]
    pc,        \* position of generate: "idle", a step, "done" or "failed"
    failure,   \* where and how the run failed: [at, err, injected]
    touched,   \* what the run has changed on disk so far: "clean", "doc", "bundle"
    bundle,    \* target/docset/<name>.docset
    bundle0,   \* the bundle when the run began
    tree0,     \* target/doc when the run began
    prevDone   \* whether the run before this one completed

wvars == <<tree, rev, badDir, wpc, walkRes>>
ivars == <<ientries, idb0, idb, ifault, ipc, ires>>
gvars == <<package, hasCurrent, cfg, pc, failure, touched, bundle, bundle0, tree0,
           prevDone>>
vars == <<wvars, ivars, gvars>>

(***************************************************************************)
(* Strings                                                                 *)
(***************************************************************************)
Dot == "."
Colon == ":"

\* str::split('.'): the parts between the dots, empty parts included.
RECURSIVE SplitFrom(_, _, _)
SplitFrom(s, i, cur) ==
    IF i > Len(s) THEN <<cur>>
    ELSE IF s[i] = Dot THEN <<cur>> \o SplitFrom(s, i + 1, <<>>)
    ELSE SplitFrom(s, i + 1, Append(cur, s[i]))

SplitDot(s) == SplitFrom(s, 1, <<>>)

\* str::contains(':')
ContainsColon(s) == \E i \in 1..Len(s) : s[i] = Colon

\* Path::extension of a file name: none without a dot, none when the only dot
\* leads the name, otherwise what follows the last dot.
DotPositions(s) == {i \in 1..Len(s) : s[i] = Dot}

HasExtension(s) == DotPositions(s) # {} /\ DotPositions(s) # {1}

LastDot(s) == CHOOSE i \in DotPositions(s) : \A j \in DotPositions(s) : j <= i

Extension(s) == SubSeq(s, LastDot(s) + 1, Len(s))

\* format!("{}::{}", a, b)
ColonJoin(a, b) == a \o <<Colon, Colon>> \o b

(***************************************************************************)
(* Option<&str> and Option<DocsetEntry>                                    *)
(***************************************************************************)
None == [some |-> FALSE, val |-> <<>>]
Some(s) == [some |-> TRUE, val |-> s]

NoEntry == [tag |-> "none", name |-> <<>>, ty |-> "", path |-> <<>>]
Panicked == [tag |-> "panic", name |-> <<>>, ty |-> "", path |-> <<>>]
DocsetEntry(name, ty, path) == [tag |-> "some", name |-> name, ty |-> ty, path |-> path]

(***************************************************************************)
(* parse_docset_entry                                                      *)
(***************************************************************************)
RootDir == << <<"target">>, <<"doc">> >>

\* Path::strip_prefix(root).unwrap()
StripPrefix(p, root) == SubSeq(p, Len(root) + 1, Len(p))

FileName(p) == p[Len(p)]

\* The arms of the match on parts[0] of a three-part name.
KindTable ==
    { <<"const", "Constant">>, <<"enum", "Enum">>, <<"fn", "Function">>,
      <<"macro", "Macro">>, <<"trait", "Trait">>, <<"struct", "Struct">>,
      <<"type", "Type">> }

KindTokens == {k[1] : k \in KindTable}

EntryTypeOf(tok) == (CHOOSE k \in KindTable : k[1] = tok)[2]

\* module_path.unwrap() aborts the program when module_path is None.
ParseThree(module_path, parts, file_db_path) ==
    IF parts[1] \in {<<t>> : t \in KindTokens}
    THEN IF module_path.some
         THEN DocsetEntry(ColonJoin(module_path.val, parts[2]),
                          EntryTypeOf(parts[1][1]), file_db_path)
         ELSE Panicked
    ELSE NoEntry

ParseTwo(module_path, parts, file_db_path) ==
    IF parts[1] = <<"index">>
    THEN IF module_path.some
         THEN IF ContainsColon(module_path.val)
              THEN DocsetEntry(ColonJoin(module_path.val, parts[1]), "Module", file_db_path)
              ELSE DocsetEntry(module_path.val, "Package", file_db_path)
         ELSE NoEntry
    ELSE NoEntry

ParseDocsetEntry(module_path, rustdoc_root_dir, file_path) ==
    LET file_name == FileName(file_path)
        parts == SplitDot(file_name)
        file_db_path == StripPrefix(file_path, rustdoc_root_dir)
    IN  IF HasExtension(file_name) /\ Extension(file_name) = <<"html">>
        THEN CASE Len(parts) = 2 -> ParseTwo(module_path, parts, file_db_path)
               [] Len(parts) = 3 -> ParseThree(module_path, parts, file_db_path)
               [] OTHER -> NoEntry
        ELSE NoEntry

(***************************************************************************)
(* The file system below target/doc                                        *)
(***************************************************************************)
A == <<"a">>
Src == <<"src">>
Implementors == <<"implementors">>
AB == <<"a", Colon, "b">>

DirNames == {A, Src, Implementors, AB}

IndexHtml == <<"index", Dot, "html">>
KindFile(tok) == <<tok, Dot, "foo", Dot, "html">>

\* Names that take each branch of the parser: index.html, a two-part name
\* that is not index, the seven kinds, an unknown kind, a name that is not
\* html, a four-part name, a name whose only dot leads it.
ProbeFiles == {IndexHtml, KindFile("fn"), KindFile("struct")}

FileNames ==
    ProbeFiles \cup {KindFile(t) : t \in KindTokens}
        \cup { <<"foo", Dot, "html">>, KindFile("bar"), <<"fn", Dot, "foo", Dot, "txt">>,
               <<"fn", Dot, "foo", Dot, "x", Dot, "html">>, <<Dot, "html">> }

\* read_dir lists a directory in this order, or in the reverse of it.
NameOrder ==
    << A, Src, Implementors, AB, IndexHtml, KindFile("const"), KindFile("enum"),
       KindFile("fn"), KindFile("macro"), KindFile("trait"), KindFile("struct"),
       KindFile("type"), <<"foo", Dot, "html">>, KindFile("bar"),
       <<"fn", Dot, "foo", Dot, "txt">>, <<"fn", Dot, "foo", Dot, "x", Dot, "html">>,
       <<Dot, "html">> >>

Reverse(s) == [i \in 1..Len(s) |-> s[Len(s) + 1 - i]]

IsPrefix(p, q) == Len(p) <= Len(q) /\ SubSeq(q, 1, Len(p)) = p

NoDir == << <<"?">> >>

\* The names read_dir yields for a directory (given relative to the root).
\* fs is the file system as the walk sees it: [tree, rev, bad].
FileSystem(t, r, b) == [tree |-> t, rev |-> r, bad |-> b]

DirChildren(fs, dir) ==
    {leaf[Len(dir) + 1] : leaf \in {l \in fs.tree : IsPrefix(dir, l) /\ Len(l) > Len(dir)}}

ReadDir(fs, dir) ==
    SelectSeq(IF fs.rev THEN Reverse(NameOrder) ELSE NameOrder,
              LAMBDA n : n \in DirChildren(fs, dir))

\* DirEntry::file_type().is_dir()
IsDir(p) == p[Len(p)] \in DirNames

(***************************************************************************)
(* recursive_walk                                                          *)
(***************************************************************************)
ROOT_SKIP_DIRS == {Src, Implementors}

\* The guard without module_path.is_none().
SkipDirMut(module_path, dir_name) == dir_name \in ROOT_SKIP_DIRS

\* The guard of line 160, negated: the directory is not descended into.
SkipDir(module_path, dir_name) == ~module_path.some /\ dir_name \in ROOT_SKIP_DIRS

\* The new segment pushed without the separator.
SubdirModulePathMut(module_path, dir_name) ==
    (IF module_path.some THEN module_path.val ELSE <<>>) \o dir_name

\* module_path.map(|p| format!("{}::", p)).unwrap_or_default() + dir_name
SubdirModulePath(module_path, dir_name) ==
    (IF module_path.some THEN module_path.val \o <<Colon, Colon>> ELSE <<>>) \o dir_name

RECURSIVE Flatten(_)
Flatten(ss) == IF ss = <<>> THEN <<>> ELSE Head(ss) \o Flatten(Tail(ss))

WalkOk(es) == [status |-> "ok", entries |-> es]
WalkIoErr == [status |-> "ioerr", entries |-> <<>>]
WalkPanic == [status |-> "panic", entries |-> <<>>]

RECURSIVE RecursiveWalk(_, _, _, _)
RecursiveWalk(fs, root_dir, cur_dir, module_path) ==
    IF StripPrefix(cur_dir, root_dir) = fs.bad THEN WalkIoErr
    ELSE
    LET listing == ReadDir(fs, StripPrefix(cur_dir, root_dir))
        idx == 1..Len(listing)
        path(i) == Append(cur_dir, listing[i])
        descend(i) == IsDir(path(i)) /\ ~SkipDir(module_path, listing[i])
        parsed == [i \in idx |->
                     IF IsDir(path(i)) THEN NoEntry
                     ELSE ParseDocsetEntry(module_path, root_dir, path(i))]
        subdir_entries == [i \in idx |->
                     IF descend(i)
                     THEN RecursiveWalk(fs, root_dir, path(i),
                                        Some(SubdirModulePath(module_path, listing[i])))
                     ELSE WalkOk(<<>>)]
        entries == Flatten([i \in idx |->
                     IF parsed[i].tag = "some" THEN <<parsed[i]>> ELSE <<>>])
    IN  IF \E i \in idx : parsed[i].tag = "panic" \/ subdir_entries[i].status = "panic"
        THEN WalkPanic
        ELSE IF \E i \in idx : subdir_entries[i].status = "ioerr"
        THEN WalkIoErr
        ELSE WalkOk(entries \o Flatten([i \in idx |-> subdir_entries[i].entries]))

(***************************************************************************)
(* generate_sqlite_index                                                   *)
(*                                                                         *)
(* The index file: whether it exists, whether it holds the table           *)
(* searchIndex, whether the unique index anchor exists, and the rows       *)
(* (name, type, path) in insertion order (the id is the position).         *)
(***************************************************************************)
NoDb == [exists |-> FALSE, table |-> FALSE, unique |-> FALSE, rows |-> <<>>]

Row(entry) == [name |-> entry.name, ty |-> entry.ty, path |-> entry.path]

\* The text handed to Connection::execute at lines 185-187: two statements
\* and a stray parenthesis.
SchemaSql == <<"CREATE TABLE searchIndex", "CREATE UNIQUE INDEX anchor", ")">>

\* One SQL statement run on its own.
RunStatement(db, stmt) ==
    CASE stmt = "CREATE TABLE searchIndex" ->
           IF db.table THEN [ok |-> FALSE, db |-> db]
           ELSE [ok |-> TRUE, db |-> [db EXCEPT !.table = TRUE]]
      [] stmt = "CREATE UNIQUE INDEX anchor" ->
           IF ~db.table \/ db.unique THEN [ok |-> FALSE, db |-> db]
           ELSE [ok |-> TRUE, db |-> [db EXCEPT !.unique = TRUE]]
      [] OTHER -> [ok |-> FALSE, db |-> db]

\* Every statement of the text run in turn, as execute_batch would: the
\* stray parenthesis is then a syntax error.
RECURSIVE ExecuteBatch(_, _)
ExecuteBatch(db, sql) ==
    IF sql = <<>> THEN [ok |-> TRUE, db |-> db]
    ELSE LET r == RunStatement(db, Head(sql))
         IN  IF r.ok THEN ExecuteBatch(r.db, Tail(sql)) ELSE r

\* rusqlite's Connection::execute prepares the text with sqlite3_prepare_v2,
\* which compiles the first statement only, and runs that statement; the
\* rest of the text is neither parsed nor run.
Execute(db, sql) == RunStatement(db, Head(sql))

\* INSERT INTO searchIndex: fails on a row the unique index already holds.
RECURSIVE InsertAll(_, _, _)
InsertAll(db, entries, i) ==
    IF i > Len(entries) THEN [ok |-> TRUE, db |-> db]
    ELSE LET row == Row(entries[i])
         IN  IF db.unique /\ \E j \in 1..Len(db.rows) : db.rows[j] = row
             THEN [ok |-> FALSE, db |-> db]
             ELSE InsertAll([db EXCEPT !.rows = Append(@, row)], entries, i + 1)

IndexOk(db) == [ok |-> TRUE, db |-> db]
IndexErr(db) == [ok |-> FALSE, db |-> db]

\* dirOk: Contents/Resources exists.  fault: "open", "commit" or "none".
\* A transaction that is dropped without commit rolls back.
GenerateSqliteIndex(db, dirOk, entries, fault) ==
    IF ~dirOk \/ fault = "open" THEN IndexErr(db)
    ELSE LET opened == [db EXCEPT !.exists = TRUE]
             schema == Execute(opened, SchemaSql)
         IN  IF ~schema.ok THEN IndexErr(schema.db)
             ELSE LET inserted == InsertAll(schema.db, entries, 1)
                  IN  IF ~inserted.ok \/ fault = "commit" THEN IndexErr(schema.db)
                      ELSE IndexOk(inserted.db)

(***************************************************************************)
(* generate                                                                *)
(*                                                                         *)
(* The bundle: whether its directory exists, whether Contents/Resources    *)
(* exists, the index file, the nodes (directories and files, relative to   *)
(* Documents) below Contents/Resources/Documents, and Contents/Info.plist. *)
(***************************************************************************)
NoDocs == [present |-> FALSE, nodes |-> {}]
NoMeta == [present |-> FALSE, name |-> ""]

NoBundle ==
    [exists |-> FALSE, resources |-> FALSE, db |-> NoDb, docs |-> NoDocs, meta |-> NoMeta]

NoFailure == [at |-> "", err |-> "", injected |-> FALSE]
Failure(at, err, injected) == [at |-> at, err |-> err, injected |-> injected]

\* root_package_name, lines 290-326.
RootPackageName(pkg) ==
    CASE pkg = "All" -> "ws"
      [] pkg = "Current" -> "cur"
      [] pkg = "Single" -> "p"
      [] pkg = "List" -> "ws"

\* The check made for a single named package only.
UsageErrorMut(pkg, c) == pkg = "Single" /\ c.exclude

\* Line 327: cfg.package != Package::All && !cfg.exclude.is_empty()
UsageError(pkg, c) == pkg # "All" /\ c.exclude

\* Every directory and file of a tree: the non-empty prefixes of its leaves.
Nodes(t) == UNION {{SubSeq(l, 1, k) : k \in 1..Len(l)} : l \in t}

\* clean with doc: false: the whole of target is removed, target/docset too.
CargoCleanMut(t, b) == [tree |-> {}, bundle |-> NoBundle]

\* clean with CleanOptions { doc: true, .. }, when it succeeds: target/doc is
\* removed, the rest of target stays.
CargoClean(t, b) == [tree |-> {}, bundle |-> b]

\* Only the index file removed.
RemoveDirAllMut(b) == [b EXCEPT !.db = NoDb]

\* Only Documents removed.
RemoveDocumentsOnly(b) == [b EXCEPT !.docs = NoDocs]

\* remove_dir_all(docset_root_dir), when it succeeds.
RemoveDirAll(b) == NoBundle

\* What remove_dir_all may leave when it fails.
RemoveFailed(b) == {b, [b EXCEPT !.docs = [present |-> b.docs.present, nodes |-> {}]]}

\* create_dir_all(Contents/Resources), when it succeeds.
CreateSkeleton(b) == [b EXCEPT !.exists = TRUE, !.resources = TRUE]

\* What it may leave when it fails: nothing, or the directories above Resources.
SkeletonFailed(b) == {b, [b EXCEPT !.exists = TRUE]}

\* copy_dir_recursive(target/doc, Documents), when it succeeds: every
\* directory is created, every file copied over what is there.
CopyDirRecursive(t, docs) == [present |-> TRUE, nodes |-> docs.nodes \cup Nodes(t)]

\* What it may leave when it fails: nothing, or Documents, empty or with one
\* leaf of the tree and the directories above it.
CopyFailed(t, docs) ==
    {docs} \cup {CopyDirRecursive(part, docs) : part \in ({{}} \cup {{l} : l \in t}) \ {t}}

\* write_metadata, when it succeeds.
WriteMetadata(name) == [present |-> TRUE, name |-> name]

\* What it may leave when it fails: no file, or a file that is not complete.
MetadataFailed(m) == {m, [present |-> TRUE, name |-> ""]}

GenerateIdle ==
    /\ package = "All"
    /\ hasCurrent = TRUE
    /\ cfg = [exclude |-> FALSE, clean |-> FALSE]
    /\ pc = "idle"
    /\ failure = NoFailure
    /\ touched = {}
    /\ bundle = NoBundle
    /\ bundle0 = NoBundle
    /\ tree0 = {}
    /\ prevDone = FALSE

(***************************************************************************)
(* The walk on its own: Init draws the tree, Walk runs recursive_walk.     *)
(***************************************************************************)
MaxFiles == 2

Dirs == { <<>>, <<A>>, <<Src>>, <<Implementors>>, <<AB>>, <<A, Src>>,
          <<A, Implementors>>, <<A, A, Src>> }

\* Every file name in the root and in a; the probes in the other directories;
\* three directories that may be empty.
Leaves ==
    {Append(d, f) : d \in {<<>>, <<A>>}, f \in FileNames}
        \cup {Append(d, f) : d \in Dirs \ {<<>>, <<A>>}, f \in ProbeFiles}
        \cup { <<A>>, <<Src>>, <<A, Src>> }

\* No leaf lies below another leaf: an empty directory is empty.
WellFormed(t) == \A p \in t, q \in t : IsPrefix(p, q) => p = q

RECURSIVE SubsetsUpTo(_, _)
SubsetsUpTo(S, n) ==
    IF n = 0 THEN {{}}
    ELSE LET smaller == SubsetsUpTo(S, n - 1)
         IN  smaller \cup {s \cup {x} : s \in smaller, x \in S}

Trees == {t \in SubsetsUpTo(Leaves, MaxFiles) : WellFormed(t)}

DirsOf(t) == {d \in Dirs : \E l \in t : IsPrefix(d, l) /\ (Len(l) > Len(d) \/ IsDir(l))}

NoResult == [status |-> "none", entries |-> <<>>]

IndexIdle ==
    /\ ientries = <<>>
    /\ idb0 = NoDb
    /\ idb = NoDb
    /\ ifault = "none"
    /\ ipc = "start"
    /\ ires = "none"

WalkInit ==
    /\ IndexIdle
    /\ GenerateIdle
    /\ tree \in Trees
    /\ rev \in BOOLEAN
    /\ badDir = NoDir
    /\ wpc = "start"
    /\ walkRes = NoResult

Walk ==
    /\ wpc = "start"
    /\ \E b \in {NoDir} \cup {d \in DirsOf(tree) : Len(d) = 1} :
          /\ badDir' = b
          /\ walkRes' = RecursiveWalk(FileSystem(tree, rev, b), RootDir, RootDir, None)
    /\ wpc' = "done"
    /\ UNCHANGED <<tree, rev, ivars, gvars>>

WalkNext == Walk

SpecWalk == WalkInit /\ [][WalkNext]_vars

(***************************************************************************)
(* Properties of the walk                                                  *)
(***************************************************************************)
WalkDone == wpc = "done" /\ walkRes.status = "ok"

Entries == {walkRes.entries[i] : i \in 1..Len(walkRes.entries)}

EntryCount(path) == Cardinality({i \in 1..Len(walkRes.entries) : walkRes.entries[i].path = path})

DirOf(leaf) == SubSeq(leaf, 1, Len(leaf) - 1)

\* d1::...::dn
RECURSIVE JoinDirs(_)
JoinDirs(d) ==
    IF Len(d) = 1 THEN d[1]
    ELSE JoinDirs(SubSeq(d, 1, Len(d) - 1)) \o <<":", ":">> \o d[Len(d)]

\* The walk reaches a directory unless its first segment is src or implementors.
Reached(d) == Len(d) = 0 \/ d[1] \notin {<<"src">>, <<"implementors">>}

MappedKind ==
    [const |-> "Constant", enum |-> "Enum", fn |-> "Function", macro |-> "Macro",
     trait |-> "Trait", struct |-> "Struct", type |-> "Type"]

\* C1: a file <kind>.<ident>.html the walk reaches in d1/.../dn, n >= 1, has
\* exactly one entry in the result, of the mapped kind, named
\* d1::...::dn::<ident>, with the file's relative path; a three-part html name
\* with another first part has no entry.
C1_KindEntries ==
    WalkDone =>
        \A leaf \in tree :
            LET d == DirOf(leaf)
                name == leaf[Len(leaf)]
            IN  (Len(leaf) >= 2 /\ Reached(d) /\ Len(name) = 5 /\ name[2] = "."
                    /\ name[4] = "." /\ name[5] = "html") =>
                  IF name[1] \in DOMAIN MappedKind
                  THEN /\ EntryCount(leaf) = 1
                       /\ [tag |-> "some", name |-> JoinDirs(d) \o <<":", ":", name[3]>>,
                           ty |-> MappedKind[name[1]], path |-> leaf] \in Entries
                  ELSE EntryCount(leaf) = 0

\* A struct three levels down is found while a sibling directory holds a file.
C1_Witness ==
    /\ WalkDone
    /\ \E e \in Entries :
          /\ e.name = <<"a", ":", ":", "a", ":", ":", "src", ":", ":", "foo">>
          /\ e.ty = "Struct"
    /\ \E leaf \in tree : Len(leaf) = 2 /\ leaf[1] = <<"a", ":", "b">>

\* C2: index.html in d1/.../dn yields a Module entry named d1::...::dn::index
\* when n >= 2, a Package entry named d1 when n = 1, and no entry when n = 0.
C2_IndexEntries ==
    WalkDone =>
        \A leaf \in tree :
            LET d == DirOf(leaf)
            IN  (leaf[Len(leaf)] = <<"index", ".", "html">> /\ Reached(d)) =>
                  CASE Len(d) >= 2 ->
                         [tag |-> "some", name |-> JoinDirs(d) \o <<":", ":", "index">>,
                          ty |-> "Module", path |-> leaf] \in Entries
                    [] Len(d) = 1 ->
                         [tag |-> "some", name |-> d[1], ty |-> "Package",
                          path |-> leaf] \in Entries
                    [] OTHER -> EntryCount(leaf) = 0

\* C3: no entry lies in src or implementors directly below the root; a
\* directory of either name further down is walked like any other.
C3_RootSkip ==
    WalkDone =>
        /\ \A e \in Entries : e.path[1] \notin {<<"src">>, <<"implementors">>}
        /\ \A leaf \in tree :
              (/\ Len(leaf) >= 3
               /\ Reached(DirOf(leaf))
               /\ \E k \in 2..(Len(leaf) - 1) : leaf[k] \in {<<"src">>, <<"implementors">>}
               /\ leaf[Len(leaf)] \in ProbeFiles)
                  => EntryCount(leaf) = 1

\* A file in src below the root is left out, one in a/src is found.
C3_Witness ==
    /\ WalkDone
    /\ \E leaf \in tree : Len(leaf) = 2 /\ leaf[1] = <<"src">> /\ leaf[2] \in ProbeFiles
    /\ \E e \in Entries : Len(e.path) = 3 /\ e.path[1] = <<"a">> /\ e.path[2] = <<"src">>

\* C10: the parser never aborts, whatever the namespace path and the file:
\* no walk ends in an abort.
C10_NeverAborts == wpc = "done" => walkRes.status # "panic"

(***************************************************************************)
(* The index construction on its own: Init draws the entries and the file. *)
(***************************************************************************)
MaxEntries == 3

EntryPool ==
    { DocsetEntry(<<"a">>, "Package", <<A, IndexHtml>>),
      DocsetEntry(<<"a", Colon, Colon, "foo">>, "Function", <<A, KindFile("fn")>>),
      DocsetEntry(<<"a", Colon, Colon, "foo">>, "Struct", <<A, KindFile("struct")>>) }

EntrySeqs == UNION {[1..n -> EntryPool] : n \in 0..MaxEntries}

\* The file is absent (a fresh skeleton) or left by an earlier construction.
OldDbs ==
    { NoDb,
      [exists |-> TRUE, table |-> TRUE, unique |-> FALSE, rows |-> <<>>],
      [exists |-> TRUE, table |-> TRUE, unique |-> FALSE,
       rows |-> <<Row(DocsetEntry(<<"a">>, "Package", <<A, IndexHtml>>))>>] }

WalkIdle ==
    /\ tree = {}
    /\ rev = FALSE
    /\ badDir = NoDir
    /\ wpc = "start"
    /\ walkRes = NoResult

IndexInit ==
    /\ WalkIdle
    /\ GenerateIdle
    /\ ientries \in EntrySeqs
    /\ idb0 \in OldDbs
    /\ idb = idb0
    /\ ifault = "none"
    /\ ipc = "start"
    /\ ires = "none"

BuildIndex ==
    /\ ipc = "start"
    /\ \E f \in {"none", "open", "commit"} :
          LET r == GenerateSqliteIndex(idb, TRUE, ientries, f)
          IN  /\ ifault' = f
              /\ idb' = r.db
              /\ ires' = IF r.ok THEN "ok" ELSE "err"
    /\ ipc' = "done"
    /\ UNCHANGED <<ientries, idb0, wvars, gvars>>

IndexNext == BuildIndex

SpecIndex == IndexInit /\ [][IndexNext]_vars

(***************************************************************************)
(* Properties of the index construction                                    *)
(***************************************************************************)
HasDuplicate(es) == \E i, j \in 1..Len(es) : i < j /\ Row(es[i]) = Row(es[j])

RowsUnique(db) == \A i, j \in 1..Len(db.rows) : db.rows[i] = db.rows[j] => i = j

\* C4: an entry sequence with a duplicate (name, type, path) makes the
\* construction fail and leaves none of its rows in the index; the index
\* never holds a triple twice.
C4_DuplicateFails ==
    (ipc = "done" /\ idb0 = NoDb) =>
        /\ HasDuplicate(ientries) => (ires = "err" /\ idb.rows = <<>>)
        /\ RowsUnique(idb)

\* C5: on a fresh skeleton, with no failing database call, a sequence without
\* duplicates is indexed: the construction succeeds with one row per entry.
C5_AllRows ==
    (ipc = "done" /\ ifault = "none" /\ idb0 = NoDb /\ ~HasDuplicate(ientries)) =>
        /\ ires = "ok"
        /\ idb.exists /\ idb.table
        /\ Len(idb.rows) = Len(ientries)
        /\ \A i \in 1..Len(ientries) : idb.rows[i] = Row(ientries[i])

\* Three distinct entries are indexed on a fresh skeleton.
C5_Witness ==
    /\ ipc = "done" /\ ifault = "none" /\ idb0 = NoDb /\ ires = "ok"
    /\ Len(ientries) = 3 /\ ~HasDuplicate(ientries)
    /\ Len(idb.rows) = 3

(***************************************************************************)
(* The generate pipeline.  A behaviour is a sequence of runs of one        *)
(* invocation (one package selection, so one bundle path) whose exclusion  *)
(* list and clean flag may differ from run to run.  Each step either       *)
(* succeeds or fails for a reason outside the program.                     *)
(***************************************************************************)
\* What the documentation generator may write into target/doc.
GenTrees ==
    { {<<A, IndexHtml>>, <<A, KindFile("fn")>>},
      {<<A, Src, KindFile("struct")>>},
      {<<KindFile("fn")>>} }

GenerateInit ==
    /\ IndexIdle
    /\ WalkIdle
    /\ package \in {"All", "Current", "Single", "List"}
    /\ hasCurrent \in (IF package = "Current" THEN BOOLEAN ELSE {TRUE})
    /\ cfg = [exclude |-> FALSE, clean |-> FALSE]
    /\ pc = "idle"
    /\ failure = NoFailure
    /\ touched = {}
    /\ bundle = NoBundle
    /\ bundle0 = NoBundle
    /\ tree0 = {}
    /\ prevDone = FALSE

Fail(at, err, injected) ==
    /\ pc' = "failed"
    /\ failure' = Failure(at, err, injected)

\* generate is called.
Begin ==
    /\ pc \in {"idle", "done", "failed"}
    /\ \E e \in BOOLEAN, c \in BOOLEAN : cfg' = [exclude |-> e, clean |-> c]
    /\ pc' = "opts"
    /\ failure' = NoFailure
    /\ touched' = {}
    /\ bundle0' = bundle
    /\ tree0' = tree
    /\ prevDone' = (pc = "done")
    /\ walkRes' = NoResult
    /\ UNCHANGED <<tree, rev, badDir, wpc, ivars, package, hasCurrent, bundle>>

\* Lines 258-263: CompileOptions::new(..).context(CargoDoc)?
StepOpts ==
    /\ pc = "opts"
    /\ \/ pc' = "package" /\ UNCHANGED failure
       \/ Fail("opts", "CargoDoc", TRUE)
    /\ UNCHANGED <<wvars, ivars, package, hasCurrent, cfg, touched, bundle, bundle0, tree0,
                   prevDone>>

\* Lines 290-326: workspace.current().context(Cargo)? in the arm of Current.
StepPackage ==
    /\ pc = "package"
    /\ IF package = "Current" /\ ~hasCurrent
       THEN Fail("package", "Cargo", FALSE)
       ELSE pc' = "usage" /\ UNCHANGED failure
    /\ UNCHANGED <<wvars, ivars, package, hasCurrent, cfg, touched, bundle, bundle0, tree0,
                   prevDone>>

\* Lines 327-332.
StepUsage ==
    /\ pc = "usage"
    /\ IF UsageError(package, cfg)
       THEN Fail("usage", "Args", FALSE)
       ELSE pc' = "clean" /\ UNCHANGED failure
    /\ UNCHANGED <<wvars, ivars, package, hasCurrent, cfg, touched, bundle, bundle0, tree0,
                   prevDone>>

\* Lines 341-344: clean removes target/doc.
StepClean ==
    /\ pc = "clean"
    /\ IF cfg.clean
       THEN \/ /\ tree' = CargoClean(tree, bundle).tree
               /\ bundle' = CargoClean(tree, bundle).bundle
               /\ touched' = touched \cup {"clean"}
               /\ pc' = "doc"
               /\ UNCHANGED failure
            \/ /\ Fail("clean", "CargoClean", TRUE)
               /\ UNCHANGED <<tree, bundle, touched>>
       ELSE /\ pc' = "doc"
            /\ UNCHANGED <<tree, bundle, touched, failure>>
    /\ UNCHANGED <<rev, badDir, wpc, walkRes, ivars, package, hasCurrent, cfg,
                   bundle0, tree0, prevDone>>

\* Line 350: the generator writes its pages over what target/doc holds.
StepDoc ==
    /\ pc = "doc"
    /\ \/ /\ \E gen \in GenTrees : tree' = tree \cup gen
          /\ touched' = touched \cup {"doc"}
          /\ pc' = "walk"
          /\ UNCHANGED failure
       \/ /\ Fail("doc", "CargoDoc", TRUE)
          /\ UNCHANGED <<tree, touched>>
    /\ UNCHANGED <<rev, badDir, wpc, walkRes, ivars, package, hasCurrent, cfg, bundle,
                   bundle0, tree0, prevDone>>

\* Line 353.
StepWalk ==
    /\ pc = "walk"
    /\ \E r \in BOOLEAN, b \in {NoDir, <<>>} :
          LET res == RecursiveWalk(FileSystem(tree, r, b), RootDir, RootDir, None)
          IN  /\ walkRes' = res
              /\ CASE res.status = "ok" -> pc' = "remove" /\ UNCHANGED failure
                   [] res.status = "ioerr" -> Fail("walk", "IoRead", TRUE)
                   [] OTHER -> Fail("walk", "panic", FALSE)
    /\ UNCHANGED <<tree, rev, badDir, wpc, ivars, package, hasCurrent, cfg, touched,
                   bundle, bundle0, tree0, prevDone>>

\* Lines 358-360.
StepRemove ==
    /\ pc = "remove"
    /\ IF bundle.exists
       THEN \/ /\ bundle' = RemoveDirAll(bundle)
               /\ touched' = touched \cup {"bundle"}
               /\ pc' = "skeleton"
               /\ UNCHANGED failure
            \/ /\ bundle' \in RemoveFailed(bundle)
               /\ touched' = touched \cup {"bundle"}
               /\ Fail("remove", "IoWrite", TRUE)
       ELSE /\ pc' = "skeleton"
            /\ UNCHANGED <<bundle, touched, failure>>
    /\ UNCHANGED <<wvars, ivars, package, hasCurrent, cfg, bundle0, tree0, prevDone>>

\* Lines 361-364.
StepSkeleton ==
    /\ pc = "skeleton"
    /\ touched' = touched \cup {"bundle"}
    /\ \/ /\ bundle' = CreateSkeleton(bundle)
          /\ pc' = "index"
          /\ UNCHANGED failure
       \/ /\ bundle' \in SkeletonFailed(bundle)
          /\ Fail("skeleton", "IoWrite", TRUE)
    /\ UNCHANGED <<wvars, ivars, package, hasCurrent, cfg, bundle0, tree0, prevDone>>

\* Line 365.
StepIndex ==
    /\ pc = "index"
    /\ \E f \in {"none", "open", "commit"} :
          LET r == GenerateSqliteIndex(bundle.db, bundle.resources, walkRes.entries, f)
          IN  /\ bundle' = [bundle EXCEPT !.db = r.db]
              /\ IF r.ok
                 THEN pc' = "copy" /\ UNCHANGED failure
                 ELSE Fail("index", "Sqlite", f # "none")
    /\ UNCHANGED <<wvars, ivars, package, hasCurrent, cfg, touched, bundle0, tree0,
                   prevDone>>

\* Lines 368-369.
StepCopy ==
    /\ pc = "copy"
    /\ \/ /\ bundle' = [bundle EXCEPT !.docs = CopyDirRecursive(tree, @)]
          /\ pc' = "metadata"
          /\ UNCHANGED failure
       \/ /\ \E d \in CopyFailed(tree, bundle.docs) : bundle' = [bundle EXCEPT !.docs = d]
          /\ Fail("copy", "IoWrite", TRUE)
    /\ UNCHANGED <<wvars, ivars, package, hasCurrent, cfg, touched, bundle0, tree0,
                   prevDone>>

\* Lines 372-374.
StepMetadata ==
    /\ pc = "metadata"
    /\ \/ /\ bundle' = [bundle EXCEPT !.meta = WriteMetadata(RootPackageName(package))]
          /\ pc' = "done"
          /\ UNCHANGED failure
       \/ /\ \E m \in MetadataFailed(bundle.meta) : bundle' = [bundle EXCEPT !.meta = m]
          /\ Fail("metadata", "IoWrite", TRUE)
    /\ UNCHANGED <<wvars, ivars, package, hasCurrent, cfg, touched, bundle0, tree0,
                   prevDone>>

GenerateNext ==
    \/ Begin
    \/ StepOpts
    \/ StepPackage
    \/ StepUsage
    \/ StepClean
    \/ StepDoc
    \/ StepWalk
    \/ StepRemove
    \/ StepSkeleton
    \/ StepIndex
    \/ StepCopy
    \/ StepMetadata

Spec == GenerateInit /\ [][GenerateNext]_vars

(***************************************************************************)
(* Properties of generate                                                  *)
(***************************************************************************)
RowSet(db) == {db.rows[i] : i \in 1..Len(db.rows)}

BeforeRemoval == {"opts", "package", "usage", "clean", "doc", "walk", "remove"}

\* C6: nothing is written to the bundle before an existing bundle is
\* deleted, the skeleton is created where no bundle is, and after a completed
\* run the bundle holds what this run produced and nothing else: the rows of
\* this walk, the nodes of this tree, this run's metadata.
C6_CleanRebuild ==
    /\ pc \in BeforeRemoval => bundle = bundle0
    /\ pc = "skeleton" => bundle = NoBundle
    /\ pc = "done" =>
          /\ Len(bundle.db.rows) = Len(walkRes.entries)
          /\ RowSet(bundle.db) = {Row(walkRes.entries[i]) : i \in 1..Len(walkRes.entries)}
          /\ bundle.docs.nodes = Nodes(tree)
          /\ bundle.meta = [present |-> TRUE, name |-> RootPackageName(package)]

\* A run completes over a bundle that held rows and pages it does not produce.
C6_Witness ==
    /\ pc = "done"
    /\ bundle0.docs.nodes \ Nodes(tree) # {}
    /\ RowSet(bundle0.db) \ RowSet(bundle.db) # {}

Complete(b) ==
    /\ b.exists /\ b.resources /\ b.db.table /\ b.docs.present
    /\ b.meta = [present |-> TRUE, name |-> RootPackageName(package)]

\* C7 as stated: after a run that stopped on a fatal condition the bundle is
\* absent or a complete bundle.
C7_NeverHalfWritten == pc = "failed" => (bundle = NoBundle \/ Complete(bundle))

\* C7 amended: a run that stops before the deletion step (usage error,
\* failure of the options, the package lookup, clean or the generator, I/O
\* error or abort in the walk) leaves the bundle as it was when the run began.
C7_EarlyFailureKeepsBundle ==
    (pc = "failed" /\ failure.at \in BeforeRemoval \ {"remove"}) => bundle = bundle0

\* The generator fails after clean ran, with a complete bundle on disk.
C7_Witness ==
    /\ pc = "failed" /\ failure.at = "doc" /\ "clean" \in touched
    /\ Complete(bundle0) /\ bundle = bundle0

\* C8: a run that follows a completed run, on the same tree and for the same
\* package, fails only for a reason outside the program or on options it
\* rejects, and when it completes Documents is what it was and the index
\* holds the same set of rows, none twice.
C8_RebuildIdempotent ==
    (prevDone /\ tree = tree0) =>
        /\ pc = "failed" => (failure.injected \/ failure.err = "Args")
        /\ pc = "done" =>
              /\ bundle.docs = bundle0.docs
              /\ RowSet(bundle.db) = RowSet(bundle0.db)
              /\ Len(bundle.db.rows) = Len(bundle0.db.rows)

\* The second run lists the directories in another order than the first.
C8_Witness ==
    /\ prevDone /\ tree = tree0 /\ pc = "done"
    /\ Len(bundle.db.rows) >= 2
    /\ bundle.db.rows # bundle0.db.rows

\* C9 as stated: with an exclusion list and a mode other than All, a run
\* that no outside failure stops ends in the usage error, before any change
\* on disk.
C9_UsageError ==
    (pc = "failed" /\ cfg.exclude /\ package # "All" /\ ~failure.injected) =>
        /\ failure.err = "Args"
        /\ touched = {} /\ bundle = bundle0 /\ tree = tree0

\* C9 amended: with an exclusion list and a mode other than All the run
\* never gets past the usage check and changes nothing on disk; it ends in
\* the usage error unless the options or the current package fail first.
C9_ErrorBeforeMutation ==
    (pc # "idle" /\ cfg.exclude /\ package # "All") =>
        /\ pc \in {"opts", "package", "usage", "failed"}
        /\ touched = {} /\ bundle = bundle0 /\ tree = tree0
        /\ pc = "failed" => (failure.err = "Args" \/ failure.at \in {"opts", "package"})

\* The usage error is returned with a complete bundle on disk.
C9_Witness ==
    /\ pc = "failed" /\ failure.err = "Args" /\ cfg.exclude /\ package = "Single"
    /\ Complete(bundle) /\ bundle = bundle0

====
